---- MODULE Spec2Model ----
(***************************************************************************)
(* State-machine model of the user CRUD API of src/app.py: the "users"     *)
(* table (SQLite, through SQLAlchemy), the pydantic request and response   *)
(* schemas, and the seven handlers.                                        *)
(*                                                                         *)
(* Encoding of values.  A Python string is a sequence of one-character     *)
(* strings.  An optional value is None (the empty tuple) or Some(v) (the   *)
(* one-element tuple), so JSON null / SQL NULL / Python None is None.  A   *)
(* JSON request body is a function from the keys it carries to optional    *)
(* values: a key that is absent is not in its DOMAIN, a key that is        *)
(* present with null maps to None.                                         *)
(***************************************************************************)
EXTENDS Integers, Sequences, FiniteSets, TLC

VARIABLES users, now, issued, resp, inflight

vars == <<users, now, issued, resp, inflight>>

(***************************************************************************)
(* Bounds of the model.                                                    *)
(***************************************************************************)
\* largest rowid a modelled insert may allocate
MaxId == 2
\* last instant of the modelled clock
MaxClock == 1

(***************************************************************************)
(* Program constants.                                                      *)
(***************************************************************************)
NameMinLen == 1
NameMaxLen == 100
AgeMin == 0
AgeMax == 150
BioMaxLen == 500
LimitMin == 1
LimitMax == 1000
LimitDefault == 100
SkipDefault == 0

None == <<>>
Some(v) == <<v>>

Fields == {"name", "email", "age", "bio"}

\* ch repeated n times
Rep(ch, n) == [i \in 1..n |-> ch]

Min(a, b) == IF a <= b THEN a ELSE b

(***************************************************************************)
(* SQLite text matching.  Column.contains(t) is rendered as                *)
(*     col LIKE '%' || t || '%'                                            *)
(* and SQLite's LIKE folds ASCII case, reads % as any run of characters    *)
(* and _ as any one character, and has no escape character unless an       *)
(* ESCAPE clause is given (none is).                                       *)
(***************************************************************************)
UpperChars == <<"A", "B", "C", "D", "E", "F", "G", "H", "I", "J", "K", "L", "M",
                "N", "O", "P", "Q", "R", "S", "T", "U", "V", "W", "X", "Y", "Z">>
LowerChars == <<"a", "b", "c", "d", "e", "f", "g", "h", "i", "j", "k", "l", "m",
                "n", "o", "p", "q", "r", "s", "t", "u", "v", "w", "x", "y", "z">>

\* the lower-case letter of each ASCII upper-case letter
FoldTable ==
    [c \in {UpperChars[i] : i \in 1..Len(UpperChars)} |->
        LowerChars[CHOOSE i \in 1..Len(UpperChars) : UpperChars[i] = c]]

Fold(c) == IF c \in DOMAIN FoldTable THEN FoldTable[c] ELSE c

\* positions of s the first k characters of the pattern can match up to
RECURSIVE LikeReach(_, _, _)
LikeReach(pat, k, s) ==
    IF k = 0 THEN {0}
    ELSE LET before == LikeReach(pat, k - 1, s)
             ch == Fold(pat[k])
         IN IF pat[k] = "%" THEN {j \in 0..Len(s) : \E i \in before : i <= j}
            ELSE IF pat[k] = "_" THEN {i + 1 : i \in {j \in before : j < Len(s)}}
            ELSE {i + 1 : i \in {j \in before : j < Len(s) /\ Fold(s[j + 1]) = ch}}

\* s LIKE pat
Like(pat, s) == Len(s) \in LikeReach(pat, Len(pat), s)

\* col.contains(term) on an optional column: NULL LIKE x is NULL, not true
Contains(col, term) == col # None /\ Like(<<"%">> \o term \o <<"%">>, col[1])

(***************************************************************************)
(* The users table.  A row is a record                                     *)
(*   [id, name, email, age, bio, created_at, updated_at]                   *)
(* with id an integer, name/email/age/bio optional values (every column    *)
(* but the primary key is nullable) and the timestamps clock instants.     *)
(***************************************************************************)
Ids(db) == {u.id : u \in db}

RowOf(db, id) == CHOOSE u \in db : u.id = id

\* id is INTEGER PRIMARY KEY without AUTOINCREMENT: SQLite gives a new row
\* the largest rowid in the table plus one, and 1 in an empty table
NextRowid(db) ==
    IF db = {} THEN 1
    ELSE (CHOOSE m \in Ids(db) : \A i \in Ids(db) : i <= m) + 1

\* the table without the UNIQUE index on email
NoUniqueIndex(db, row) == FALSE

\* the UNIQUE index on email: NULLs never collide
UniqueViolation(db, row) ==
    /\ row.email # None
    /\ \E u \in db : u.id # row.id /\ u.email = row.email

\* the pre-check left out
EmailNeverRegistered(db, e) == FALSE

\* db.query(UserDB).filter(UserDB.email == e).first() is not None
EmailRegistered(db, e) == \E u \in db : u.email = e

\* rows of a table scan, in rowid order
RECURSIVE ByRowid(_)
ByRowid(db) ==
    IF db = {} THEN <<>>
    ELSE LET u == CHOOSE r \in db : \A o \in db : r.id <= o.id
         IN <<u>> \o ByRowid(db \ {u})

(***************************************************************************)
(* Request and response schemas (pydantic).                                *)
(***************************************************************************)
NameOk(v) == Len(v) >= NameMinLen /\ Len(v) <= NameMaxLen
AgeOk(v) == v >= AgeMin /\ v <= AgeMax
BioOk(v) == Len(v) <= BioMaxLen

\* UserBase / UserCreate: name, email, age required and not null
UserCreateValid(b) ==
    /\ "name" \in DOMAIN b /\ b.name # None /\ NameOk(b.name[1])
    /\ "email" \in DOMAIN b /\ b.email # None
    /\ "age" \in DOMAIN b /\ b.age # None /\ AgeOk(b.age[1])
    /\ ("bio" \in DOMAIN b /\ b.bio # None) => BioOk(b.bio[1])

\* UserUpdate: every field Optional, constraints apply to non-null values
UserUpdateValid(b) ==
    /\ ("name" \in DOMAIN b /\ b.name # None) => NameOk(b.name[1])
    /\ ("age" \in DOMAIN b /\ b.age # None) => AgeOk(b.age[1])
    /\ ("bio" \in DOMAIN b /\ b.bio # None) => BioOk(b.bio[1])

\* attribute of a parsed model: an unset field reads as its default, None
Attr(b, f) == IF f \in DOMAIN b THEN b[f] ELSE None

\* user.dict()
Dict(b) == [f \in Fields |-> Attr(b, f)]

\* user.dict() where exclude_unset=True was meant
DictWithUnset(b) == [f \in Fields |-> Attr(b, f)]

\* user.dict(exclude_unset=True)
DictExcludeUnset(b) == [f \in DOMAIN b \cap Fields |-> b[f]]

\* for field, value in data.items(): setattr(db_user, field, value)
SetAttrs(row, data) ==
    [k \in DOMAIN row |-> IF k \in DOMAIN data THEN data[k] ELSE row[k]]

\* UserResponse(...) is validated like UserBase; a row it rejects makes the
\* handler raise, which the framework answers with status 500
user_db_to_response_ok(row) ==
    /\ row.name # None /\ NameOk(row.name[1])
    /\ row.email # None
    /\ row.age # None /\ AgeOk(row.age[1])
    /\ row.bio # None => BioOk(row.bio[1])

Resp(op, status, id, body) == [op |-> op, status |-> status, id |-> id, body |-> body]

\* response of a handler that returns the rows of a sequence
ListResp(op, rows) ==
    IF \A i \in 1..Len(rows) : user_db_to_response_ok(rows[i])
    THEN Resp(op, 200, 0, rows)
    ELSE Resp(op, 500, 0, <<>>)

\* response of a handler that returns one row
RowResp(op, ok, row) ==
    IF user_db_to_response_ok(row)
    THEN Resp(op, ok, row.id, <<row>>)
    ELSE Resp(op, 500, row.id, <<>>)

Idle == [pc |-> "idle", body |-> <<>>, status |-> 0]

Init ==
    /\ users = {}
    /\ now = 0
    /\ issued = {}
    /\ resp = Resp("none", 0, 0, <<>>)
    /\ inflight = [p \in {1, 2} |-> Idle]

\* datetime.utcnow() moves on between requests
Tick ==
    /\ now < MaxClock
    /\ now' = now + 1
    /\ UNCHANGED <<users, issued, resp, inflight>>

(***************************************************************************)
(* POST /users                                                             *)
(***************************************************************************)
\* what a datetime.utcnow() call may return when an earlier call returned t
LaterReads(t) == t..MaxClock

\* the INSERT fills created_at and updated_at from their column defaults, one
\* datetime.utcnow() call each, created_at first: t1 and t2 are the two reads
NewRow(id, data, t1, t2) ==
    [id |-> id, name |-> data.name, email |-> data.email, age |-> data.age,
     bio |-> data.bio, created_at |-> t1, updated_at |-> t2]

create_user(b) ==
    /\ UNCHANGED inflight
    /\ IF ~UserCreateValid(b)
       THEN /\ resp' = Resp("create", 422, 0, <<>>)
            /\ UNCHANGED <<users, issued, now>>
       ELSE IF EmailRegistered(users, Dict(b).email)
       THEN /\ resp' = Resp("create", 400, 0, <<>>)
            /\ UNCHANGED <<users, issued, now>>
       ELSE \E t2 \in LaterReads(now) :
            LET row == NewRow(NextRowid(users), Dict(b), now, t2) IN
            /\ row.id <= MaxId
            /\ now' = t2
            /\ IF UniqueViolation(users, row)
               THEN /\ resp' = Resp("create", 500, 0, <<>>)
                    /\ UNCHANGED <<users, issued>>
               ELSE /\ users' = users \cup {row}
                    /\ issued' = issued \cup {row.id}
                    /\ resp' = RowResp("create", 201, row)

(***************************************************************************)
(* GET /users/{user_id}                                                    *)
(***************************************************************************)
get_user_by_id_result(db, id) ==
    IF id <= 0 THEN Resp("get", 422, id, <<>>)
    ELSE IF id \notin Ids(db) THEN Resp("get", 404, id, <<>>)
    ELSE RowResp("get", 200, RowOf(db, id))

get_user_by_id(id) ==
    /\ resp' = get_user_by_id_result(users, id)
    /\ UNCHANGED <<users, now, issued, inflight>>

(***************************************************************************)
(* DELETE /users/{user_id}                                                 *)
(***************************************************************************)
\* a delete whose query lost its filter on the id
delete_user_unfiltered(id) ==
    /\ UNCHANGED <<now, issued, inflight>>
    /\ IF id <= 0
       THEN resp' = Resp("delete", 422, id, <<>>) /\ UNCHANGED users
       ELSE IF id \notin Ids(users)
       THEN resp' = Resp("delete", 404, id, <<>>) /\ UNCHANGED users
       ELSE /\ users' = {}
            /\ resp' = Resp("delete", 204, id, <<>>)

delete_user(id) ==
    /\ UNCHANGED <<now, issued, inflight>>
    /\ IF id <= 0
       THEN resp' = Resp("delete", 422, id, <<>>) /\ UNCHANGED users
       ELSE IF id \notin Ids(users)
       THEN resp' = Resp("delete", 404, id, <<>>) /\ UNCHANGED users
       ELSE /\ users' = users \ {RowOf(users, id)}
            /\ resp' = Resp("delete", 204, id, <<>>)

(***************************************************************************)
(* PUT /users/{user_id} and PATCH /users/{user_id}                         *)
(***************************************************************************)
\* db.commit() of an UPDATE of one row: the UNIQUE index may refuse it, and
\* the row is read back for the response
CommitUpdate(op, old, new) ==
    IF UniqueViolation(users \ {old}, new)
    THEN /\ resp' = Resp(op, 500, old.id, <<>>)
         /\ UNCHANGED users
    ELSE /\ users' = (users \ {old}) \cup {new}
         /\ resp' = RowResp(op, 200, new)

Touch(row, t) == [row EXCEPT !.updated_at = t]

update_user(id, b) ==
    /\ UNCHANGED <<now, issued, inflight>>
    /\ IF id <= 0 \/ ~UserCreateValid(b)
       THEN resp' = Resp("put", 422, id, <<>>) /\ UNCHANGED users
       ELSE IF id \notin Ids(users)
       THEN resp' = Resp("put", 404, id, <<>>) /\ UNCHANGED users
       ELSE LET db_user == RowOf(users, id) IN
            IF /\ Dict(b).email # db_user.email
               /\ EmailRegistered(users, Dict(b).email)
            THEN resp' = Resp("put", 400, id, <<>>) /\ UNCHANGED users
            ELSE CommitUpdate("put", db_user, Touch(SetAttrs(db_user, Dict(b)), now))

partial_update_user(id, b) ==
    /\ UNCHANGED <<now, issued, inflight>>
    /\ IF id <= 0 \/ ~UserUpdateValid(b)
       THEN resp' = Resp("patch", 422, id, <<>>) /\ UNCHANGED users
       ELSE IF id \notin Ids(users)
       THEN resp' = Resp("patch", 404, id, <<>>) /\ UNCHANGED users
       ELSE LET db_user == RowOf(users, id) IN
            IF /\ Attr(b, "email") # None
               /\ Attr(b, "email") # db_user.email
               /\ EmailRegistered(users, Attr(b, "email"))
            THEN resp' = Resp("patch", 400, id, <<>>) /\ UNCHANGED users
            ELSE CommitUpdate("patch", db_user, Touch(SetAttrs(db_user, DictExcludeUnset(b)), now))

(***************************************************************************)
(* GET /users and GET /users/search/{search_term}                          *)
(* A query q is [skip, limit, name, min_age, max_age] of optional values.  *)
(***************************************************************************)
QueryValid(q) ==
    /\ q.skip # None => q.skip[1] >= 0
    /\ q.limit # None => (q.limit[1] >= LimitMin /\ q.limit[1] <= LimitMax)
    /\ q.min_age # None => q.min_age[1] >= 0
    /\ q.max_age # None => q.max_age[1] >= 0

\* the WHERE clause get_users builds; "if name:" skips None and ""
Selected(u, q) ==
    /\ (q.name # None /\ q.name[1] # <<>>) => Contains(u.name, q.name[1])
    /\ q.min_age # None => (u.age # None /\ u.age[1] >= q.min_age[1])
    /\ q.max_age # None => (u.age # None /\ u.age[1] <= q.max_age[1])

\* query.offset(skip).limit(limit).all()
OffsetLimit(rows, skip, limit) == SubSeq(rows, skip + 1, Min(Len(rows), skip + limit))

get_users_result(db, q) ==
    IF ~QueryValid(q) THEN Resp("list", 422, 0, <<>>)
    ELSE LET skip == IF q.skip = None THEN SkipDefault ELSE q.skip[1]
             limit == IF q.limit = None THEN LimitDefault ELSE q.limit[1]
             rows == ByRowid({u \in db : Selected(u, q)})
         IN ListResp("list", OffsetLimit(rows, skip, limit))

get_users(q) ==
    /\ resp' = get_users_result(users, q)
    /\ UNCHANGED <<users, now, issued, inflight>>

\* (UserDB.name.contains(term)) | (UserDB.email.contains(term))
Found(u, term) == Contains(u.name, term) \/ Contains(u.email, term)

search_users_result(db, term) ==
    IF Len(term) < 1 THEN Resp("search", 422, 0, <<>>)
    ELSE ListResp("search", ByRowid({u \in db : Found(u, term)}))

search_users(term) ==
    /\ resp' = search_users_result(users, term)
    /\ UNCHANGED <<users, now, issued, inflight>>

(***************************************************************************)
(* POST /users as two requests in flight, each doing the pre-check         *)
(* (app.py line 119) and the insert and commit (lines 124-126) as separate *)
(* steps.  inflight[p] is request p's position, body and final status.     *)
(***************************************************************************)
Procs == {1, 2}

create_begin(p, b) ==
    /\ inflight[p].pc = "idle"
    /\ UserCreateValid(b)
    /\ inflight' = [inflight EXCEPT ![p] = [pc |-> "check", body |-> b, status |-> 0]]
    /\ UNCHANGED <<users, now, issued, resp>>

create_check(p) ==
    /\ inflight[p].pc = "check"
    /\ inflight' = [inflight EXCEPT ![p] =
          IF EmailRegistered(users, Dict(inflight[p].body).email)
          THEN [@ EXCEPT !.pc = "done", !.status = 400]
          ELSE [@ EXCEPT !.pc = "insert"]]
    /\ UNCHANGED <<users, now, issued, resp>>

create_commit(p) ==
    /\ inflight[p].pc = "insert"
    /\ \E t2 \in LaterReads(now) :
       LET row == NewRow(NextRowid(users), Dict(inflight[p].body), now, t2) IN
       /\ now' = t2
       /\ IF UniqueViolation(users, row)
          THEN /\ inflight' = [inflight EXCEPT ![p] = [@ EXCEPT !.pc = "done", !.status = 500]]
               /\ UNCHANGED <<users, issued>>
          ELSE /\ users' = users \cup {row}
               /\ issued' = issued \cup {row.id}
               /\ inflight' = [inflight EXCEPT ![p] = [@ EXCEPT !.pc = "done", !.status = 201]]
    /\ UNCHANGED resp

(***************************************************************************)
(* Requests the model sends.                                               *)
(***************************************************************************)
sJo == <<"J", "o">>
sAl == <<"A", "l">>
sK == <<"k", "@">>
sJoAt == <<"j", "o", "@">>

BodyA == [name |-> Some(sJo), email |-> Some(sK), age |-> Some(AgeMin)]
BodyB == [name |-> Some(Rep("n", NameMaxLen)), email |-> Some(sJoAt),
          age |-> Some(AgeMax), bio |-> Some(Rep("b", BioMaxLen))]

InvalidBodies ==
    { [BodyA EXCEPT !.name = Some(<<>>)],
      [BodyA EXCEPT !.name = Some(Rep("n", NameMaxLen + 1))],
      [BodyA EXCEPT !.name = None],
      [BodyA EXCEPT !.age = Some(AgeMin - 1)],
      [BodyA EXCEPT !.age = Some(AgeMax + 1)],
      [BodyB EXCEPT !.bio = Some(Rep("b", BioMaxLen + 1))],
      [name |-> Some(sJo), age |-> Some(AgeMin)] }

CreateBodies == {BodyA, BodyB} \cup InvalidBodies

PatchBodies ==
    { [age |-> Some(40)],
      [email |-> Some(sJoAt)],
      [email |-> Some(sK), bio |-> None],
      [name |-> None],
      [email |-> None],
      [age |-> Some(AgeMax + 1)],
      [name |-> Some(<<>>)],
      [bio |-> Some(Rep("b", BioMaxLen + 1))] }

PutBodies == {BodyA, BodyB, [BodyB EXCEPT !.age = Some(AgeMax + 1)]}

PathIds == 0..MaxId

\* GET /users with no parameter
QueryAll == [skip |-> None, limit |-> None, name |-> None, min_age |-> None,
             max_age |-> None]

Next ==
    \/ Tick
    \/ \E b \in CreateBodies : create_user(b)
    \/ get_users(QueryAll)
    \/ \E id \in PathIds : get_user_by_id(id)
    \/ \E id \in PathIds, b \in PutBodies : update_user(id, b)
    \/ \E id \in PathIds, b \in PatchBodies : partial_update_user(id, b)
    \/ \E id \in PathIds : delete_user(id)
    \/ search_users(<<"@">>)

Spec == Init /\ [][Next]_vars

(***************************************************************************)
(* SpecStore: the stores that creates, deletes and email-clearing patches  *)
(* build; the clock moves only between the two reads of an insert.         *)
(***************************************************************************)
StoreBodies == {BodyA, BodyB, [BodyA EXCEPT !.name = Some(sAl)],
                [BodyA EXCEPT !.age = Some(AgeMax + 1)]}

StorePatches == {[email |-> None], [age |-> Some(AgeMax + 1)]}

NextStore ==
    \/ \E b \in StoreBodies : create_user(b)
    \/ \E id \in PathIds : get_user_by_id(id)
    \/ \E id \in PathIds, b \in StorePatches : partial_update_user(id, b)
    \/ \E id \in PathIds : delete_user(id)

SpecStore == Init /\ [][NextStore]_vars

(***************************************************************************)
(* SpecFrame: creates and patches of every shape under a moving clock.     *)
(***************************************************************************)
FramePatches ==
    { [age |-> Some(40)],
      [email |-> Some(sJoAt)],
      [name |-> Some(sAl), bio |-> None],
      [name |-> Some(sAl), email |-> Some(sK), age |-> Some(40)],
      [name |-> None],
      [age |-> Some(AgeMax + 1)] }

NextFrame ==
    \/ Tick
    \/ \E b \in StoreBodies : create_user(b)
    \/ \E id \in PathIds, b \in FramePatches : partial_update_user(id, b)

SpecFrame == Init /\ [][NextFrame]_vars

(***************************************************************************)
(* SpecQuery: listing and searching the stores that creates and deletes    *)
(* build.                                                                  *)
(***************************************************************************)
sA == <<"a", "@">>
sJoLower == <<"j", "o">>

BodyC == [name |-> Some(sAl), email |-> Some(sA), age |-> Some(40)]

QueryBodies == {BodyA, BodyB, BodyC}

ListQueries ==
    [ skip : {None, Some(0), Some(1), Some(0 - 1)},
      limit : {None, Some(1), Some(LimitMin - 1), Some(LimitMax + 1)},
      name : {None, Some(<<>>), Some(sJoLower), Some(<<"_">>)},
      min_age : {None, Some(40), Some(0 - 1)},
      max_age : {None, Some(40)} ]

SearchTerms == {<<>>, sJoLower, <<"@">>, <<"_">>, <<"%">>}

NextQuery ==
    \/ \E b \in QueryBodies : create_user(b)
    \/ \E id \in PathIds : delete_user(id)
    \/ \E q \in ListQueries : get_users(q)
    \/ \E t \in SearchTerms : search_users(t)

SpecQuery == Init /\ [][NextQuery]_vars

(***************************************************************************)
(* SpecRace: two POST /users requests interleaved step by step.            *)
(***************************************************************************)
RaceBodies == {BodyA, BodyB, [BodyA EXCEPT !.name = Some(sAl)]}

NextRace ==
    \/ \E p \in Procs, b \in RaceBodies : create_begin(p, b)
    \/ \E p \in Procs : create_check(p)
    \/ \E p \in Procs : create_commit(p)

SpecRace == Init /\ [][NextRace]_vars

(***************************************************************************)
(* The claims.                                                             *)
(***************************************************************************)

\* C1: in every reachable state no two stored users have the same email.
C1_EmailUnique ==
    \A u \in users : \A v \in users : u.id # v.id => u.email # v.email

\* C2: every successful create returns an id that no earlier create issued,
\* the ids of users deleted since included.
C2_IdNeverReused ==
    [][(resp'.op = "create" /\ resp'.status = 201 /\ users' # users)
          => resp'.id \notin issued]_vars

\* C3: a create with a valid candidate fails with status 400 and leaves the
\* store unchanged when a stored user has the candidate's email; otherwise it
\* succeeds with status 201, adds exactly one record, which carries the
\* candidate's name, email, age and bio, and leaves every other record as it
\* was.
C3_CreateContract ==
    [][resp'.op = "create" => \A b \in StoreBodies :
         (UserCreateValid(b) /\ create_user(b)) =>
            IF \E u \in users : u.email = b.email
            THEN resp'.status = 400 /\ users' = users
            ELSE /\ resp'.status = 201
                 /\ users \subseteq users'
                 /\ Cardinality(users' \ users) = 1
                 /\ \A r \in users' \ users :
                       /\ r.name = b.name /\ r.email = b.email /\ r.age = b.age
                       /\ r.bio = (IF "bio" \in DOMAIN b THEN b.bio ELSE None)
                       /\ resp'.body = <<r>>]_vars

\* C3 happens: a create was refused for its email while users are stored.
C3_Witness ==
    /\ resp.op = "create" /\ resp.status = 400
    /\ Cardinality(users) = 2

\* C4: for a replace or a partial update of an existing id, accepted by
\* validation: an email that differs from the record's own and is the email
\* of another stored user makes the call fail with status 400 and change no
\* record; an email equal to the record's own lets the call succeed (status
\* 200).  On an absent id both fail with status 404 and change nothing.
C4_Post(id, b) ==
    IF id \notin Ids(users)
    THEN resp'.status = 404 /\ users' = users
    ELSE LET cur == RowOf(users, id).email IN
         /\ ( /\ b.email # cur
              /\ \E o \in users : o.id # id /\ o.email = b.email )
               => (resp'.status = 400 /\ users' = users)
         /\ b.email = cur => resp'.status = 200

C4_UpdateEmailContract ==
    [][ /\ resp'.op = "put" => \A id \in PathIds \ {0}, b \in PutBodies :
             (UserCreateValid(b) /\ update_user(id, b)) => C4_Post(id, b)
        /\ resp'.op = "patch" => \A id \in PathIds \ {0}, b \in PatchBodies :
             ( /\ UserUpdateValid(b)
               /\ "email" \in DOMAIN b /\ b.email # None
               /\ partial_update_user(id, b) ) => C4_Post(id, b) ]_vars

\* C5: a successful partial update writes exactly the fields its payload
\* carries, with the payload's values; the fields it does not carry, the id
\* and created_at of the record, and every other record stay as they were;
\* updated_at becomes the current time, which is not earlier than its
\* previous value.
C5_PatchFrame ==
    [][(resp'.op = "patch" /\ resp'.status = 200) =>
       \A id \in PathIds, b \in FramePatches :
         partial_update_user(id, b) =>
            /\ id \in Ids(users) /\ Ids(users') = Ids(users)
            /\ LET old == RowOf(users, id)
                   new == RowOf(users', id)
               IN /\ \A f \in Fields :
                        new[f] = (IF f \in DOMAIN b THEN b[f] ELSE old[f])
                  /\ new.created_at = old.created_at
                  /\ new.updated_at = now
                  /\ new.updated_at >= old.updated_at
                  /\ users' \ {new} = users \ {old}]_vars

\* C5 happens: a patch that set the name and cleared the bio succeeded, on a
\* record created at an earlier instant, with another record stored.
C5_Witness ==
    /\ resp.op = "patch" /\ resp.status = 200
    /\ Cardinality(users) = 2
    /\ resp.body[1].name = Some(sAl) /\ resp.body[1].bio = None
    /\ resp.body[1].age = Some(AgeMax)
    /\ resp.body[1].updated_at > resp.body[1].created_at

\* C6: a delete of an existing id removes exactly that record and leaves the
\* others as they were, and a get of the id then fails with status 404; a
\* delete of an absent id fails with status 404 and leaves the store as it
\* was.  (The ids are those the route accepts: user_id > 0.)
C6_DeleteContract ==
    [][resp'.op = "delete" => \A id \in PathIds \ {0} :
         delete_user(id) =>
            IF id \in Ids(users)
            THEN /\ resp'.status = 204
                 /\ users' = users \ {RowOf(users, id)}
                 /\ Cardinality(users') = Cardinality(users) - 1
                 /\ get_user_by_id_result(users', id).status = 404
            ELSE resp'.status = 404 /\ users' = users]_vars

\* C6 happens: a delete succeeded and left another record behind.
C6_Witness ==
    /\ resp.op = "delete" /\ resp.status = 204
    /\ resp.id \notin Ids(users)
    /\ users # {}

\* literal containment of t in s under the ASCII case folding the queries use
HasSubstring(s, t) ==
    \E i \in 0..(Len(s) - Len(t)) : \A j \in 1..Len(t) : Fold(s[i + j]) = Fold(t[j])

ColumnHas(col, t) == col # None /\ HasSubstring(col[1], t)

C7_Matches(u, q) ==
    /\ q.name # None => ColumnHas(u.name, q.name[1])
    /\ q.min_age # None => (u.age # None /\ u.age[1] >= q.min_age[1])
    /\ q.max_age # None => (u.age # None /\ u.age[1] <= q.max_age[1])

C7_Page(db, q) ==
    LET all == ByRowid({u \in db : C7_Matches(u, q)})
        skip == IF q.skip = None THEN SkipDefault ELSE q.skip[1]
        limit == IF q.limit = None THEN LimitDefault ELSE q.limit[1]
    IN [i \in 1..(Min(Len(all), skip + limit) - skip) |-> all[skip + i]]

\* C7: for skip >= 0 and limit in [1,1000], list returns exactly the slice
\* [skip, skip+limit) of the stored users, in id order, that satisfy all the
\* supplied filters: name contains name_filter, min_age <= age <= max_age.
C7_ListIsFilteredSlice ==
    [][resp'.op = "list" => \A q \in ListQueries :
         (QueryValid(q) /\ get_users(q)) =>
            (resp'.status = 200 /\ resp'.body = C7_Page(users, q))]_vars

\* C8: for a non-empty term, its characters taken literally, search returns
\* exactly the stored users whose name or whose email contains the term.
C8_SearchIsLiteralUnion ==
    [][resp'.op = "search" => \A t \in SearchTerms :
         (Len(t) >= 1 /\ search_users(t)) =>
            /\ resp'.status = 200
            /\ {resp'.body[i] : i \in 1..Len(resp'.body)}
                 = {u \in users : ColumnHas(u.name, t) \/ ColumnHas(u.email, t)}]_vars

\* C9: of two interleaved creates that carry the same email at most one
\* succeeds, and at most one record with that email is ever stored.
C9_OneCreateWins ==
    /\ \A p \in Procs : \A q \in Procs :
          ( /\ p # q
            /\ inflight[p].pc = "done" /\ inflight[q].pc = "done"
            /\ inflight[p].body.email = inflight[q].body.email )
             => ~(inflight[p].status = 201 /\ inflight[q].status = 201)
    /\ \A u \in users : \A v \in users : u.email = v.email => u = v

\* C9 happens: both requests passed the pre-check with the same email, one
\* was stored and the other was refused at the commit.
C9_Witness ==
    /\ inflight[1].pc = "done" /\ inflight[2].pc = "done"
    /\ inflight[1].body.email = inflight[2].body.email
    /\ {inflight[1].status, inflight[2].status} = {201, 500}

\* C10: every stored user has a name of 1 to 100 characters, an email that
\* is not null, an age in [0,150] and a bio that is absent or of at most 500
\* characters.
C10_FieldConstraints ==
    \A u \in users :
       /\ u.name # None /\ Len(u.name[1]) >= 1 /\ Len(u.name[1]) <= 100
       /\ u.email # None
       /\ u.age # None /\ u.age[1] >= 0 /\ u.age[1] <= 150
       /\ u.bio # None => Len(u.bio[1]) <= 500

====
